---- MODULE Spec2Model ----
(***************************************************************************)
(* from_file: the FromFile trait of src/from_file/src/lib.rs.              *)
(*                                                                         *)
(* Strings are sequences over Alphabet.  ":", "." and "/" are the single   *)
(* characters the code and std::path treat specially; "json", "yml" and    *)
(* "yaml" are the three words from_file compares the extension with; "a"   *)
(* is any other run of letters.                                            *)
(***************************************************************************)
EXTENDS Naturals, Sequences, FiniteSets

VARIABLES
    cwd,        \* the process's working directory: Some(path), or None when it cannot be read
    disk,       \* location -> file state; a location outside its domain holds no file
    pc,         \* where the caller / the running call stands
    op,         \* the trait function the caller invoked
    input,      \* its argument
    callee,     \* the loader whose pipeline runs (from_file dispatches to one)
    path,       \* file_read's parameter `input`: the resolved path
    maybe_path, \* file_read's local `maybe_path`
    contents,   \* file_read's local `contents`
    result,     \* the value returned to the caller
    log,        \* the stages this call has executed, in order
    history     \* the first result each input got, kept by a caller that calls again

vars == <<cwd, disk, pc, op, input, callee, path, maybe_path, contents, result, log, history>>

----------------------------------------------------------------------------
(* Bounds *)

MaxLen == 4

MaxPath == 3

Alphabet == {":", ".", "/", "a", "json", "yml", "yaml"}

Strings(n) == UNION {[1..k -> Alphabet] : k \in 0..n}

----------------------------------------------------------------------------
(* Values *)

None == [some |-> FALSE, val |-> <<>>]

Some(v) == [some |-> TRUE, val |-> v]

Ok(v) == [kind |-> "Ok", payload |-> v]

Err(k, p) == [kind |-> k, payload |-> p]

NoResult == [kind |-> "none", payload |-> <<>>]

ErrorKinds == {"InvalidExtension", "InvalidInput", "FileOpen", "FileRead", "SerdeError"}

----------------------------------------------------------------------------
(* Strings and paths *)

RECURSIVE Split(_, _)
\* str::split: the pieces between the occurrences of d, empty pieces kept.
Split(s, d) ==
    IF \E i \in 1..Len(s) : s[i] = d
    THEN LET i == CHOOSE k \in 1..Len(s) : s[k] = d /\ \A j \in 1..(k - 1) : s[j] # d
         IN  <<SubSeq(s, 1, i - 1)>> \o Split(SubSeq(s, i + 1, Len(s)), d)
    ELSE <<s>>

\* A get_file_path that keeps the first of two pieces (split[0]) instead of the second.
get_file_path_first(input_) ==
    LET split == Split(input_, ":")
    IN  CASE Len(split) = 1 -> Ok(split[1])
          [] Len(split) = 2 -> Ok(split[1])
          [] OTHER -> Err("InvalidInput", <<>>)

\* get_file_path: one piece is the path, the second of two is the path, else InvalidInput.
get_file_path(input_) ==
    LET split == Split(input_, ":")
    IN  CASE Len(split) = 1 -> Ok(split[1])
          [] Len(split) = 2 -> Ok(split[2])
          [] OTHER -> Err("InvalidInput", <<>>)

\* Path::components, as far as file_name needs them: empty pieces and "." are dropped.
Components(p) == SelectSeq(Split(p, "/"), LAMBDA c : c # <<>> /\ c # <<".">>)

\* Path::file_name: the last component, unless it is "..".
FileName(p) ==
    LET c == Components(p)
    IN  IF c = <<>> \/ c[Len(c)] = <<".", ".">> THEN None ELSE Some(c[Len(c)])

\* PathBuf::from(input).extension(): what follows the file name's last ".",
\* unless the file name has no "." or only a leading one.
Extension(p) ==
    LET f == FileName(p)
    IN  IF ~f.some THEN None
        ELSE LET n == f.val
                 dots == {i \in 1..Len(n) : n[i] = "."}
             IN  IF dots = {} THEN None
                 ELSE LET i == CHOOSE k \in dots : \A j \in dots : j <= k
                      IN  IF i = 1 THEN None ELSE Some(SubSeq(n, i + 1, Len(n)))

\* from_file's match on the extension: the loader it hands the input to.
Dispatch(ext) ==
    IF ~ext.some THEN "none"
    ELSE CASE ext.val = <<"json">> -> "from_json_file"
           [] ext.val = <<"yml">> \/ ext.val = <<"yaml">> -> "from_yml_file"
           [] OTHER -> "none"

IsAbsolute(p) == Len(p) > 0 /\ p[1] = "/"

\* PathBuf::push: an absolute argument replaces the buffer.
Push(base, p) ==
    IF IsAbsolute(p) THEN p
    ELSE IF base[Len(base)] = "/" THEN base \o p
    ELSE base \o <<"/">> \o p

\* The place File::open(p) looks at in a process whose working directory is dir.
OpenLocation(p, dir) ==
    IF p = <<>> THEN None
    ELSE IF IsAbsolute(p) THEN Some(p)
    ELSE IF dir.some THEN Some(Push(dir.val, p))
    ELSE None

----------------------------------------------------------------------------
(* Files and decoders *)

JsonDoc == <<"{\"name\": \"Shane\"}">>

YamlDoc == <<"name: Shane">>

EmptyDoc == <<>>

Texts == {JsonDoc, YamlDoc, EmptyDoc}

Absent == [exists |-> FALSE, readable |-> FALSE, text |-> <<>>]

Unreadable == [exists |-> TRUE, readable |-> FALSE, text |-> <<>>]

File(t) == [exists |-> TRUE, readable |-> TRUE, text |-> t]

FileStates == {Absent, Unreadable} \cup {File(t) : t \in Texts}

FileAt(d, loc) == IF loc.some /\ loc.val \in DOMAIN d THEN d[loc.val] ELSE Absent

Person == <<"Person", "Shane">>

from_json_string(c) ==
    IF c = JsonDoc THEN Ok(Person) ELSE Err("SerdeError", <<"serde_json">>)

from_yaml_string(c) ==
    IF c = JsonDoc \/ c = YamlDoc THEN Ok(Person) ELSE Err("SerdeError", <<"serde_yaml">>)

\* String::new()
StringNew == <<>>

\* A read that swallows its error and keeps what it got.
ReadToStringLossy(buf, f) == Ok(buf \o f.text)

\* file.read_to_string(&mut contents).map_err(|_| FileRead): the text is appended.
ReadToString(buf, f) ==
    IF f.readable THEN Ok(buf \o f.text) ELSE Err("FileRead", <<>>)

\* File::create in place of File::open: the file is created or truncated.
OpenCreate(d, loc) ==
    IF loc.some
    THEN [l \in DOMAIN d \cup {loc.val} |-> IF l = loc.val THEN File(EmptyDoc) ELSE d[l]]
    ELSE d

\* File::open opens for reading only: the file system is as before.
AfterOpen(d, loc) == d

----------------------------------------------------------------------------
(* The caller and the environment *)

Loaders == {"from_file", "from_json_file", "from_yml_file"}

Ops == Loaders \cup {"file_read", "get_file_path"}

\* The working directory when it can be read.
WorkDir == <<"/", "a">>

Cwds == {Some(WorkDir), None}

\* The path the call op(input) opens, if it gets that far.
OpensPath(o, i) ==
    CASE o = "file_read" -> Some(i)
      [] o = "get_file_path" -> None
      [] OTHER -> LET r == get_file_path(i) IN IF r.kind = "Ok" THEN Some(r.payload) ELSE None

\* The file systems that differ at the place p names.
Disks(p, dir) ==
    LET loc == IF p.some THEN OpenLocation(p.val, dir) ELSE None
    IN  IF loc.some THEN [{loc.val} -> FileStates] ELSE {<<>>}

\* Every loader checking the extension first, as from_file does.
EntryAllExtension(o) == IF o = "file_read" THEN "current_dir" ELSE "extension"

\* Where the body of each trait function starts.
EntryStage(o) ==
    CASE o = "from_file" -> "extension"
      [] o = "file_read" -> "current_dir"
      [] OTHER -> "get_file_path"

Fresh ==
    /\ callee = "none"
    /\ path = <<>>
    /\ maybe_path = <<>>
    /\ contents = <<>>
    /\ result = NoResult
    /\ log = <<>>
    /\ history = {}

Init ==
    /\ pc = "idle"
    /\ input \in Strings(MaxLen)
    /\ op \in Ops
    /\ cwd \in Cwds
    /\ disk \in Disks(OpensPath(op, input), cwd)
    /\ Fresh

----------------------------------------------------------------------------
(* One call, stage by stage *)

Finish(r) == result' = r /\ pc' = "done"

\* The caller invokes op(input).
Call ==
    /\ pc = "idle"
    /\ pc' = EntryStage(op)
    /\ callee' = IF op = "from_file" THEN "none" ELSE op
    /\ path' = IF op = "file_read" THEN input ELSE <<>>
    /\ maybe_path' = <<>>
    /\ contents' = <<>>
    /\ result' = NoResult
    /\ log' = <<>>
    /\ UNCHANGED <<cwd, disk, op, input, history>>

\* from_file: the extension of the input decides the loader, or the call ends.
FromFile ==
    /\ pc = "extension"
    /\ log' = Append(log, "extension")
    /\ LET to == Dispatch(Extension(input))
       IN  IF to = "none"
           THEN Finish(Err("InvalidExtension", <<>>)) /\ UNCHANGED callee
           ELSE callee' = to /\ pc' = "get_file_path" /\ UNCHANGED result
    /\ UNCHANGED <<cwd, disk, op, input, path, maybe_path, contents, history>>

\* get_file_path(input), called directly or as the loaders' first stage.
GetFilePath ==
    /\ pc = "get_file_path"
    /\ log' = Append(log, "get_file_path")
    /\ LET r == get_file_path(input)
       IN  IF r.kind = "Ok" /\ callee # "get_file_path"
           THEN path' = r.payload /\ pc' = "current_dir" /\ UNCHANGED result
           ELSE Finish(r) /\ UNCHANGED path
    /\ UNCHANGED <<cwd, disk, op, input, callee, maybe_path, contents, history>>

\* file_read: std::env::current_dir().expect(..), then maybe_path.push(&input).
CurrentDir ==
    /\ pc = "current_dir"
    /\ log' = Append(log, "current_dir")
    /\ IF cwd.some
       THEN maybe_path' = Push(cwd.val, path) /\ pc' = "open"
       ELSE pc' = "panicked" /\ UNCHANGED maybe_path
    /\ UNCHANGED <<cwd, disk, op, input, callee, path, contents, result, history>>

\* file_read: File::open(&input).map_err(|_| FileOpen(maybe_path))?, then String::new().
FileOpen ==
    /\ pc = "open"
    /\ log' = Append(log, "open")
    /\ LET loc == OpenLocation(path, cwd)
       IN  /\ disk' = AfterOpen(disk, loc)
           /\ IF FileAt(disk, loc).exists
              THEN contents' = StringNew /\ pc' = "read_to_string" /\ UNCHANGED result
              ELSE Finish(Err("FileOpen", maybe_path)) /\ UNCHANGED contents
    /\ UNCHANGED <<cwd, op, input, callee, path, maybe_path, history>>

\* file_read: file.read_to_string(&mut contents).map_err(|_| FileRead)?; Ok(contents).
FileRead ==
    /\ pc = "read_to_string"
    /\ log' = Append(log, "read_to_string")
    /\ LET r == ReadToString(contents, FileAt(disk, OpenLocation(path, cwd)))
       IN  IF r.kind = "Ok"
           THEN /\ contents' = r.payload
                /\ IF callee = "file_read"
                   THEN Finish(r)
                   ELSE pc' = "decode" /\ UNCHANGED result
           ELSE Finish(r) /\ UNCHANGED contents
    /\ UNCHANGED <<cwd, disk, op, input, callee, path, maybe_path, history>>

\* from_json_file's last stage.
FromJsonString ==
    /\ pc = "decode"
    /\ callee = "from_json_file"
    /\ log' = Append(log, "from_json_string")
    /\ Finish(from_json_string(contents))
    /\ UNCHANGED <<cwd, disk, op, input, callee, path, maybe_path, contents, history>>

\* from_yml_file's last stage.
FromYamlString ==
    /\ pc = "decode"
    /\ callee = "from_yml_file"
    /\ log' = Append(log, "from_yaml_string")
    /\ Finish(from_yaml_string(contents))
    /\ UNCHANGED <<cwd, disk, op, input, callee, path, maybe_path, contents, history>>

Stage ==
    \/ FromFile
    \/ GetFilePath
    \/ CurrentDir
    \/ FileOpen
    \/ FileRead
    \/ FromJsonString
    \/ FromYamlString

Next == Call \/ Stage

Spec == Init /\ [][Next]_vars

----------------------------------------------------------------------------
(* A caller that loads the same file again and again through from_file *)

PathStrings == {p \in Strings(MaxPath) : \A i \in 1..Len(p) : p[i] # ":"}

\* The inputs that name the path b: bare, behind a scheme, behind two.
Family(b) == {b, <<":">> \o b, <<"a", ":">> \o b, <<"a", ":", "a", ":">> \o b}

Base(i) == LET split == Split(i, ":") IN split[Len(split)]

Recorded(h, i) == \E e \in h : e.input = i

FirstResult(h, i) == (CHOOSE e \in h : e.input = i).result

InitSeq ==
    /\ pc = "idle"
    /\ op = "from_file"
    /\ cwd \in Cwds
    /\ \E b \in PathStrings :
          /\ input \in Family(b)
          /\ disk \in Disks(Some(b), cwd)
    /\ Fresh

\* The call has returned; the caller keeps the first result per input and
\* picks the input of its next call.
Return ==
    /\ pc = "done"
    /\ pc' = "idle"
    /\ history' = IF Recorded(history, input)
                  THEN history
                  ELSE history \cup {[input |-> input, result |-> result]}
    /\ input' \in Family(Base(input))
    /\ callee' = "none"
    /\ path' = <<>>
    /\ maybe_path' = <<>>
    /\ contents' = <<>>
    /\ result' = NoResult
    /\ log' = <<>>
    /\ UNCHANGED <<cwd, disk, op>>

NextSeq == Call \/ Stage \/ Return

SpecSeq == InitSeq /\ [][NextSeq]_vars

----------------------------------------------------------------------------
(* Properties *)

Colons(s) == Cardinality({i \in 1..Len(s) : s[i] = ":"})

\* What follows the first ":" of s.
AfterColon(s) ==
    LET i == CHOOSE k \in 1..Len(s) : s[k] = ":" /\ \A j \in 1..(k - 1) : s[j] # ":"
    IN  SubSeq(s, i + 1, Len(s))

IsPrefix(a, b) == Len(a) <= Len(b) /\ SubSeq(b, 1, Len(a)) = a

Has(l, x) == \E i \in 1..Len(l) : l[i] = x

Once(l, x) == Cardinality({i \in 1..Len(l) : l[i] = x}) <= 1

Ended == pc \in {"done", "panicked"}

FixedLoaders == {"from_json_file", "from_yml_file"}

DecoderOf(o) == IF o = "from_json_file" THEN "from_json_string" ELSE "from_yaml_string"

Decoded(o, text) == IF o = "from_json_file" THEN from_json_string(text) ELSE from_yaml_string(text)

\* The four stages of a fixed loader: resolve, open, read, decode.
Pipeline(o) == <<"get_file_path", "open", "read_to_string", DecoderOf(o)>>

PipelineStages(l) == SelectSeq(l, LAMBDA x : x # "current_dir")

\* The file the running call's resolved path names.
Target == FileAt(disk, OpenLocation(path, cwd))

\* C1: get_file_path returns Ok(the whole input) when the input has no ":",
\* Ok(the text after the ":") when it has exactly one, and Err(InvalidInput)
\* when it has two or more.
C1_GetFilePath ==
    (op = "get_file_path" /\ pc = "done") =>
        CASE Colons(input) = 0 -> result = Ok(input)
          [] Colons(input) = 1 -> result = Ok(AfterColon(input))
          [] OTHER -> result = Err("InvalidInput", <<>>)

C1_Witness ==
    /\ op = "get_file_path"
    /\ pc = "done"
    /\ Colons(input) = 1
    /\ input[1] # ":"
    /\ result.kind = "Ok"
    /\ result.payload # <<>>

\* C2: from_file on an input whose resolved path has extension json (yml, yaml)
\* and names an existing, readable file returns exactly the JSON (YAML)
\* decoder's result on the file's full text.
C2_DecodeByExtension ==
    (op = "from_file" /\ Ended /\ get_file_path(input).kind = "Ok") =>
        LET p == get_file_path(input).payload
            to == Dispatch(Extension(p))
            f == FileAt(disk, OpenLocation(p, cwd))
        IN  (to # "none" /\ f.exists /\ f.readable) =>
                /\ pc = "done"
                /\ result = Decoded(to, f.text)

\* C3: for every input whose file path has no extension, or one other than
\* json, yml or yaml, from_file fails with InvalidExtension and attempts no
\* file-system operation before it returns.
C3_NoIoOnInvalidExtension ==
    (op = "from_file" /\ get_file_path(input).kind = "Ok"
        /\ Dispatch(Extension(get_file_path(input).payload)) = "none") =>
        /\ ~Has(log, "current_dir")
        /\ ~Has(log, "open")
        /\ ~Has(log, "read_to_string")
        /\ Ended => result = Err("InvalidExtension", <<>>)

\* C4: for every input with two or more ":", from_file returns InvalidInput,
\* whatever the input's extension is.
C4_InvalidInputFirst ==
    (op = "from_file" /\ Ended /\ Colons(input) >= 2) =>
        result = Err("InvalidInput", <<>>)

\* C5: every call of from_file, from_json_file, from_yml_file or file_read
\* returns a Result, Ok or one of the five error kinds, and never aborts the
\* process, whatever the environment is.
C5_NeverAborts ==
    (op \in Loaders \cup {"file_read"}) =>
        /\ pc # "panicked"
        /\ pc = "done" => result.kind \in ErrorKinds \cup {"Ok"}

\* C6: for every well-formed input with a recognized extension whose resolved
\* path cannot be opened, the load fails with FileOpen(p), p being the working
\* directory joined with the resolved path, the place the open was attempted on.
C6_FileOpenCarriesPath ==
    (op = "from_file" /\ Ended /\ get_file_path(input).kind = "Ok") =>
        LET p == get_file_path(input).payload
        IN  (Dispatch(Extension(input)) # "none" /\ Dispatch(Extension(p)) # "none"
                /\ ~FileAt(disk, OpenLocation(p, cwd)).exists) =>
                /\ pc = "done"
                /\ result.kind = "FileOpen"
                /\ cwd.some
                /\ result.payload = Push(cwd.val, p)
                /\ OpenLocation(p, cwd) = Some(result.payload)

\* C7: the scheme has no influence: from_file(s + ":" + p) returns what
\* from_file(p) returns in the same file-system state.
C7_SchemeIgnored ==
    (pc = "done" /\ Colons(input) = 1 /\ Recorded(history, AfterColon(input))) =>
        result = FirstResult(history, AfterColon(input))

\* C8: while the file system and the working directory do not change, every
\* from_file call returns what the first call with the same input returned,
\* whatever other loads ran in between, and no call changes the file system.
C8_Idempotent ==
    [][/\ disk' = disk
       /\ cwd' = cwd
       /\ (pc' = "done" /\ Recorded(history', input')) =>
              result' = FirstResult(history', input')]_vars

C8_Witness ==
    /\ pc = "done"
    /\ Colons(input) = 0
    /\ result.kind = "Ok"
    /\ Recorded(history, input)
    /\ \E e \in history : e.input # input /\ e.result.kind = "InvalidInput"

\* C9: from_json_file and from_yml_file run resolve, open, read, decode in
\* that order, each at most once and only after the earlier ones succeeded;
\* the first failing stage ends the call with its own error (InvalidInput,
\* FileOpen, FileRead, SerdeError), and the decoder sees the complete text.
C9_LinearPipeline ==
    (op \in FixedLoaders) =>
        LET st == PipelineStages(log)
        IN  /\ IsPrefix(st, Pipeline(op))
            /\ \A x \in {"current_dir", "open", "read_to_string"} : Once(log, x)
            /\ (Has(st, "get_file_path") /\ Colons(input) >= 2) =>
                   pc = "done" /\ result.kind = "InvalidInput" /\ Len(st) = 1
            /\ (Has(st, "open") /\ ~Target.exists) =>
                   pc = "done" /\ result.kind = "FileOpen" /\ Len(st) = 2
            /\ (Has(st, "read_to_string") /\ ~Target.readable) =>
                   pc = "done" /\ result.kind = "FileRead" /\ Len(st) = 3
            /\ Has(st, DecoderOf(op)) =>
                   /\ pc = "done"
                   /\ contents = Target.text
                   /\ result = Decoded(op, Target.text)
                   /\ result.kind \in {"Ok", "SerdeError"}
            /\ pc = "done" =>
                   \/ result.kind = "InvalidInput" /\ Colons(input) >= 2
                   \/ result.kind = "FileOpen" /\ ~Target.exists
                   \/ result.kind = "FileRead" /\ Target.exists /\ ~Target.readable
                   \/ result.kind \in {"Ok", "SerdeError"} /\ st = Pipeline(op)

C9_Witness ==
    /\ op = "from_yml_file"
    /\ pc = "done"
    /\ Colons(input) = 1
    /\ Dispatch(Extension(path)) = "from_yml_file"
    /\ PipelineStages(log) = Pipeline(op)
    /\ result = Ok(Person)
    /\ contents = YamlDoc

\* C10: from_json_file and from_yml_file never inspect the extension: they
\* apply their fixed decoder to the file at the resolved path whatever its
\* extension is and never return InvalidExtension; only from_file can.
C10_FixedDecoder ==
    /\ (op \in FixedLoaders) =>
          /\ ~Has(log, "extension")
          /\ ~Has(log, DecoderOf(CHOOSE o \in FixedLoaders : o # op))
          /\ result.kind # "InvalidExtension"
          /\ (pc = "done" /\ Target.exists /\ Target.readable) =>
                 result = Decoded(op, Target.text)
    /\ result.kind = "InvalidExtension" => op = "from_file"

C10_Witness ==
    /\ op = "from_json_file"
    /\ pc = "done"
    /\ Dispatch(Extension(path)) = "from_yml_file"
    /\ result = Ok(Person)

====
